---- MODULE Spec2Model ----
(***************************************************************************)
(* Model of the canvas runtime of wgpu-prog: src/canvas.rs                 *)
(* (CanvasData and create_and_run_canvas), src/error.rs (the mapping of    *)
(* surface errors) and the EventHandler trait of src/event_handler.rs.     *)
(*                                                                         *)
(* The handler, the surface, the queue and the window target are recording *)
(* doubles: every call the runtime makes on them during one step (one      *)
(* startup statement or one invocation of the event-loop closure) is       *)
(* appended, in program order, to canvas_data.trace.                       *)
(***************************************************************************)
EXTENDS Integers, Sequences, FiniteSets, TLC

\* ---------------------------------------------------------------- bounds
\* Widths and heights of construction options and resize events: 0..MaxDim.
MaxDim == 2
\* Physical cursor coordinates of cursor-move events: 0..MaxCoord.
MaxCoord == 1

Dims == 0..MaxDim

\* What window.inner_size() may answer.
InnerSizes == [width : Dims, height : Dims]
Coords == 0..MaxCoord

\* ------------------------------------------------------------ the platform
OwnWindow == "window"
OtherWindow == "other-window"
WindowIds == {OwnWindow, OtherWindow}

\* Scale factors a display may have.
ScaleFactors == {1, 2}

MouseButtons == {"Left"}
Keys == {"a"}
ElementStates == {"Pressed", "Released"}

\* Outcomes of wgpu's Surface::get_current_texture: a texture or a SurfaceError.
SurfaceErrors == {"Lost", "OutOfMemory", "Timeout", "Outdated"}
AcquireResults == {"Texture"} \cup SurfaceErrors

\* Surface capabilities the adapter may report (formats, in preference order).
SrgbFormats == {"Bgra8UnormSrgb"}
SurfaceCaps ==
    { [formats |-> <<"Bgra8Unorm", "Bgra8UnormSrgb">>,
       present_modes |-> <<"Fifo">>, alpha_modes |-> <<"Opaque">>],
      [formats |-> <<"Rgba16Float">>,
       present_modes |-> <<"Mailbox", "Fifo">>, alpha_modes |-> <<"Auto">>] }

\* Steps of CanvasData::new that can fail ("none": all succeed).
NewFailures == {"none", "create_surface", "request_adapter", "request_device"}

\* ------------------------------------------------------------- f64 values
\* An f64 that is the quotient of two integers is kept as a reduced fraction
\* <<numerator, denominator>>.
RECURSIVE GCD(_, _)
GCD(a, b) == IF b = 0 THEN a ELSE GCD(b, a % b)

Frac(n, d) == LET g == GCD(n, d) IN <<n \div g, d \div g>>

Zero == Frac(0, 1)

\* LogicalPosition::from_physical(position, scale_factor): x / scale_factor.
from_physical(position, scale_factor) ==
    [x |-> Frac(position.x, scale_factor), y |-> Frac(position.y, scale_factor)]

\* ------------------------------------------------------------------ errors
Err(kind) == [ok |-> FALSE, kind |-> kind]
Ok == [ok |-> TRUE, kind |-> "none"]
Pending == [ok |-> FALSE, kind |-> "pending"]

\* impl From<SurfaceError> for Error
\* A conversion that takes a timeout for a lost context.
error_from_timeout_lost(error) ==
    CASE error \in {"Lost", "Timeout"} -> Err("ContextLost")
      [] error = "OutOfMemory" -> Err("OutOfMemory")
      [] OTHER -> Err("GraphicsAPI")

error_from(error) ==
    CASE error = "Lost" -> Err("ContextLost")
      [] error = "OutOfMemory" -> Err("OutOfMemory")
      [] OTHER -> Err("GraphicsAPI")

\* ----------------------------------------------------------------- state
VARIABLES
    pc,               \* position in create_and_run_canvas
    options,          \* CanvasOptions {width, height}, until last read
    window,           \* the window: id, scale_factor
    canvas_data,      \* CanvasData: size, config, surface, trace of calls
    cursor_pos,       \* the closure's cursor_pos: [f64; 2]
    exit_requested,   \* window_target.exit() has been called
    redraw_requested, \* window.request_redraw() is pending
    result,           \* what create_and_run_canvas returned
    event,            \* kind and window of the event last given to the closure
    last_move,        \* logical position of the last cursor-move of the window
    handler_total,    \* number of setup and stop callbacks made so far
    render_oom        \* the last event made a render() call that returned OutOfMemory

vars == <<pc, options, window, canvas_data, cursor_pos, exit_requested,
          redraw_requested, result, event, last_move, handler_total, render_oom>>

\* ------------------------------------------------------------ the doubles
\* One recorded call: the operation and its arguments. The operation is named
\* first, so that two calls are compared by operation before by arguments
\* (arguments of different operations are of different kinds).
Op(name, arguments) == [op |-> name, args |-> arguments]

Emit(cd, name, args) == [cd EXCEPT !.trace = Append(@, Op(name, args))]

\* The trace starts empty at every step.
Fresh(cd) == [cd EXCEPT !.trace = <<>>]

Count(trace, name) == Cardinality({i \in DOMAIN trace : trace[i].op = name})

Index(trace, name) == CHOOSE i \in DOMAIN trace : trace[i].op = name

\* The totals of setup and stop callbacks after the calls of trace.
Tally(total, trace) ==
    [setup |-> total.setup + Count(trace, "handler.setup"),
     stop |-> total.stop + Count(trace, "handler.stop")]

NoWindow == [id |-> "none", scale_factor |-> 1]

NoOptions == [width |-> 0, height |-> 0]

NoEvent == [kind |-> "none", window_id |-> "none"]

NoCanvas ==
    [created |-> FALSE,
     size |-> [width |-> 0, height |-> 0],
     config |-> [usage |-> "none", format |-> "none", width |-> 0, height |-> 0,
                 present_mode |-> "none", alpha_mode |-> "none"],
     surface |-> [configured |-> FALSE, width |-> 0, height |-> 0],
     trace |-> <<>>]

\* --------------------------------------------------------------- CanvasData
\* surface.configure(&device, &config) taking any size.
configure_any_size(cd) ==
    Emit([cd EXCEPT !.surface = [configured |-> TRUE,
                                 width |-> cd.config.width,
                                 height |-> cd.config.height]],
         "surface.configure", <<cd.config.width, cd.config.height>>)

\* surface.configure(&device, &config): wgpu refuses a zero width or height
\* with a fatal error, so the call panics and the surface stays as it was.
configure(cd) ==
    IF cd.config.width = 0 \/ cd.config.height = 0
    THEN Emit(cd, "panic", <<cd.config.width, cd.config.height>>)
    ELSE Emit([cd EXCEPT !.surface = [configured |-> TRUE,
                                      width |-> cd.config.width,
                                      height |-> cd.config.height]],
              "surface.configure", <<cd.config.width, cd.config.height>>)

\* A call made for cd has panicked.
Panicked(cd) == Count(cd.trace, "panic") > 0

\* The first sRGB format of the capabilities, or formats[0].
surface_format(caps) ==
    LET srgb == {i \in DOMAIN caps.formats : caps.formats[i] \in SrgbFormats}
    IN IF srgb = {} THEN caps.formats[1]
       ELSE caps.formats[CHOOSE i \in srgb : \A j \in srgb : i <= j]

\* CanvasData::new, when every step succeeds; inner_size is what
\* window.inner_size() gives.
new(inner_size, caps) ==
    LET size == inner_size
        config == [usage |-> "RENDER_ATTACHMENT",
                   format |-> surface_format(caps),
                   width |-> size.width,
                   height |-> size.height,
                   present_mode |-> caps.present_modes[1],
                   alpha_mode |-> caps.alpha_modes[1]]
    IN configure([created |-> TRUE, size |-> size, config |-> config,
                  surface |-> [configured |-> FALSE, width |-> 0, height |-> 0],
                  trace |-> <<>>])

\* resize with the guard "either dimension positive".
resize_either_positive(cd, new_size) ==
    LET c0 == Emit(cd, "CanvasData::resize", <<new_size.width, new_size.height>>)
    IN IF new_size.width > 0 \/ new_size.height > 0
       THEN LET c1 == [c0 EXCEPT !.size = new_size]
                c2 == [c1 EXCEPT !.config.width = new_size.width]
                c3 == [c2 EXCEPT !.config.height = new_size.height]
                c4 == configure(c3)
            IN Emit(c4, "handler.resize", <<new_size.width, new_size.height>>)
       ELSE c0

\* resize notifying the handler before the surface is reconfigured.
resize_notify_first(cd, new_size) ==
    LET c0 == Emit(cd, "CanvasData::resize", <<new_size.width, new_size.height>>)
    IN IF new_size.width > 0 /\ new_size.height > 0
       THEN LET c1 == [c0 EXCEPT !.size = new_size]
                c2 == Emit(c1, "handler.resize", <<new_size.width, new_size.height>>)
                c3 == [c2 EXCEPT !.config.width = new_size.width]
                c4 == [c3 EXCEPT !.config.height = new_size.height]
            IN configure(c4)
       ELSE c0

\* CanvasData::resize
\* resize writing the configuration but not the cached size.
resize_keeps_size(cd, new_size) ==
    LET c0 == Emit(cd, "CanvasData::resize", <<new_size.width, new_size.height>>)
    IN IF new_size.width > 0 /\ new_size.height > 0
       THEN LET c2 == [c0 EXCEPT !.config.width = new_size.width]
                c3 == [c2 EXCEPT !.config.height = new_size.height]
                c4 == configure(c3)
            IN Emit(c4, "handler.resize", <<new_size.width, new_size.height>>)
       ELSE c0

\* resize building the configuration anew with default modes.
resize_rebuilds_config(cd, new_size) ==
    LET c0 == Emit(cd, "CanvasData::resize", <<new_size.width, new_size.height>>)
    IN IF new_size.width > 0 /\ new_size.height > 0
       THEN LET c1 == [c0 EXCEPT !.size = new_size]
                c2 == [c1 EXCEPT !.config = [usage |-> "RENDER_ATTACHMENT",
                                             format |-> cd.config.format,
                                             width |-> new_size.width,
                                             height |-> new_size.height,
                                             present_mode |-> "Fifo",
                                             alpha_mode |-> "Opaque"]]
                c4 == configure(c2)
            IN Emit(c4, "handler.resize", <<new_size.width, new_size.height>>)
       ELSE c0

resize(cd, new_size) ==
    LET c0 == Emit(cd, "CanvasData::resize", <<new_size.width, new_size.height>>)
    IN IF new_size.width > 0 /\ new_size.height > 0
       THEN LET c1 == [c0 EXCEPT !.size = new_size]
                c2 == [c1 EXCEPT !.config.width = new_size.width]
                c3 == [c2 EXCEPT !.config.height = new_size.height]
                c4 == configure(c3)
            IN Emit(c4, "handler.resize", <<new_size.width, new_size.height>>)
       ELSE c0

\* render calling next_frame before the frame is submitted and presented.
render_next_frame_first(cd, acquired) ==
    LET c0 == Emit(cd, "CanvasData::render", <<>>)
    IN IF acquired \in SurfaceErrors
       THEN [cd |-> c0, result |-> error_from(acquired)]
       ELSE LET c1 == Emit(c0, "handler.next_frame", <<>>)
                c2 == Emit(c1, "queue.submit", <<>>)
                c3 == Emit(c2, "output.present", <<>>)
            IN [cd |-> c3, result |-> Ok]

\* CanvasData::render; acquired is what surface.get_current_texture() gives.
render(cd, acquired) ==
    LET c0 == Emit(cd, "CanvasData::render", <<>>)
    IN IF acquired \in SurfaceErrors
       THEN [cd |-> c0, result |-> error_from(acquired)]
       ELSE LET c1 == Emit(c0, "queue.submit", <<>>)
                c2 == Emit(c1, "output.present", <<>>)
                c3 == Emit(c2, "handler.next_frame", <<>>)
            IN [cd |-> c3, result |-> Ok]

\* ------------------------------------------------------------------ startup
Init ==
    /\ pc = "start"
    /\ options \in [width : Dims, height : Dims]
    /\ window = NoWindow
    /\ canvas_data = NoCanvas
    /\ cursor_pos = <<Zero, Zero>>
    /\ exit_requested = FALSE
    /\ redraw_requested = FALSE
    /\ result = Pending
    /\ event = NoEvent
    /\ last_move = <<Zero, Zero>>
    /\ handler_total = [setup |-> 0, stop |-> 0]
    /\ render_oom = FALSE

\* What is left of a CanvasData that went out of scope: the calls of the step.
Dropped(cd) == [NoCanvas EXCEPT !.trace = cd.trace]

\* create_and_run_canvas returns r: its locals (options, the window, the
\* canvas data with the handler, cursor_pos) go out of scope.
Return(r, cd) ==
    /\ pc' = "done"
    /\ result' = r
    /\ options' = NoOptions
    /\ window' = NoWindow
    /\ canvas_data' = Dropped(cd)
    /\ cursor_pos' = <<Zero, Zero>>
    /\ exit_requested' = FALSE
    /\ redraw_requested' = FALSE
    /\ handler_total' = Tally(handler_total, cd.trace)

\* A panic unwinds out of create_and_run_canvas: it never returns, and its
\* locals are dropped.
Abort(cd) ==
    /\ pc' = "panicked"
    /\ result' = Pending
    /\ options' = NoOptions
    /\ window' = NoWindow
    /\ canvas_data' = Dropped(cd)
    /\ cursor_pos' = <<Zero, Zero>>
    /\ exit_requested' = FALSE
    /\ redraw_requested' = FALSE
    /\ handler_total' = Tally(handler_total, cd.trace)

\* let event_loop = EventLoop::new().map_err(..)?
EventLoopNew(ok) ==
    /\ pc = "start"
    /\ IF ok
       THEN /\ pc' = "window"
            /\ UNCHANGED <<result, options, window, canvas_data, cursor_pos,
                           exit_requested, redraw_requested, handler_total>>
       ELSE Return(Err("GraphicsAPI"), canvas_data)
    /\ UNCHANGED <<event, last_move, render_oom>>

\* let window = WindowBuilder::new()
\*     .with_inner_size(LogicalSize::new(options.width, options.height))
\*     .build(&event_loop).map_err(..)?
WindowBuild(ok, scale_factor) ==
    /\ pc = "window"
    /\ IF ok
       THEN /\ window' = [id |-> OwnWindow, scale_factor |-> scale_factor]
            /\ pc' = "canvas_data"
            /\ UNCHANGED <<result, options, canvas_data, cursor_pos,
                           exit_requested, redraw_requested, handler_total>>
       ELSE Return(Err("GraphicsAPI"), canvas_data)
    /\ UNCHANGED <<event, last_move, render_oom>>

\* CanvasData::new followed at once by the event loop, setup left out.
CanvasDataNew_skip_setup(failure, caps, inner_size) ==
    /\ pc = "canvas_data"
    /\ IF failure = "none"
       THEN /\ canvas_data' = new(inner_size, caps)
            /\ pc' = "running"
            /\ handler_total' = Tally(handler_total, canvas_data'.trace)
            /\ options' = NoOptions
            /\ UNCHANGED <<result, window, cursor_pos,
                           exit_requested, redraw_requested>>
       ELSE Return(Err("GraphicsAPI"), Fresh(canvas_data))
    /\ UNCHANGED <<event, last_move, render_oom>>

\* let mut canvas_data = CanvasData::new(window, handler).await?
\* inner_size is what the platform answers to window.inner_size(): the size it
\* gave the window, which need not be the size the window was asked for.
CanvasDataNew(failure, caps, inner_size) ==
    /\ pc = "canvas_data"
    /\ IF failure = "none"
       THEN IF Panicked(new(inner_size, caps))
            THEN Abort(new(inner_size, caps))
            ELSE /\ canvas_data' = new(inner_size, caps)
                 /\ pc' = "setup"
                 /\ handler_total' = Tally(handler_total, canvas_data'.trace)
                 /\ UNCHANGED <<result, options, window, cursor_pos,
                                exit_requested, redraw_requested>>
       ELSE Return(Err("GraphicsAPI"), Fresh(canvas_data))
    /\ UNCHANGED <<event, last_move, render_oom>>

\* setup whose error is logged and startup carried on.
HandlerSetup_ignore_error(ok) ==
    LET cd == Emit(Fresh(canvas_data), "handler.setup",
                   <<options.width, options.height>>)
    IN /\ pc = "setup"
       /\ pc' = "running"
       /\ canvas_data' = cd
       /\ handler_total' = Tally(handler_total, cd.trace)
       /\ cursor_pos' = <<Zero, Zero>>
       /\ options' = NoOptions
       /\ UNCHANGED <<result, window, exit_requested, redraw_requested>>
       /\ UNCHANGED <<event, last_move, render_oom>>

\* if let Err(err) = canvas_data.handler().setup(options.width, options.height)
\* { return Err(Error::Internal(..)) }; let mut cursor_pos = [0.0, 0.0];
\* options is not read again.
HandlerSetup(ok) ==
    LET cd == Emit(Fresh(canvas_data), "handler.setup",
                   <<options.width, options.height>>)
    IN /\ pc = "setup"
       /\ IF ok
          THEN /\ pc' = "running"
               /\ canvas_data' = cd
               /\ handler_total' = Tally(handler_total, cd.trace)
               /\ cursor_pos' = <<Zero, Zero>>
               /\ options' = NoOptions
               /\ UNCHANGED <<result, window, exit_requested, redraw_requested>>
          ELSE Return(Err("Internal"), cd)
       /\ UNCHANGED <<event, last_move, render_oom>>

\* --------------------------------------------------------- the event loop
\* The state the closure passed to event_loop.run works on: the captured
\* canvas_data and cursor_pos, the window target's exit flag and the window's
\* pending redraw request.
ClosureState(cd, pos, exit, redraw) ==
    [cd |-> cd, cursor_pos |-> pos, exit |-> exit, redraw |-> redraw]

WindowEvent(kind, window_id, args) ==
    [kind |-> kind, window_id |-> window_id, args |-> args]

WindowEventKinds == {"Resized", "CursorMoved", "MouseInput", "KeyboardInput",
                     "CloseRequested", "RedrawRequested", "ScaleFactorChanged"}

\* WindowEvent::Resized(size) => canvas_data.resize(size)
on_resized(st, size) == [st EXCEPT !.cd = resize(st.cd, size)]

\* CursorMoved that notifies the handler and leaves cursor_pos as it was.
on_cursor_moved_no_cache(st, position, scale_factor) ==
    LET logical_position == from_physical(position, scale_factor)
    IN [st EXCEPT !.cd = Emit(@, "handler.cursor_move",
                              <<logical_position.x, logical_position.y>>)]

\* WindowEvent::CursorMoved { position, .. }
on_cursor_moved(st, position, scale_factor) ==
    LET logical_position == from_physical(position, scale_factor)
    IN [st EXCEPT !.cursor_pos = <<logical_position.x, logical_position.y>>,
                  !.cd = Emit(@, "handler.cursor_move",
                              <<logical_position.x, logical_position.y>>)]

\* WindowEvent::MouseInput { state, button, .. }
on_mouse_input(st, state, button) ==
    LET x == st.cursor_pos[1]
        y == st.cursor_pos[2]
        pressed == (state = "Pressed")
    IN [st EXCEPT !.cd = Emit(@, "handler.mouse_button", <<x, y, button, pressed>>)]

\* WindowEvent::KeyboardInput { event, .. }
on_keyboard_input(st, key, state) ==
    LET pressed == (state = "Pressed")
    IN [st EXCEPT !.cd = Emit(@, "handler.keyboard_event", <<key, pressed>>)]

\* WindowEvent::CloseRequested => window_target.exit()
on_close_requested(st) == [st EXCEPT !.exit = TRUE]

\* RedrawRequested with a lost context handled as fatal after the resize.
on_redraw_requested_lost_exits(st, acquired) ==
    LET r == render(st.cd, acquired)
    IN CASE r.result.ok -> [st EXCEPT !.cd = r.cd]
         [] r.result.kind = "ContextLost" ->
                [st EXCEPT !.cd = resize(r.cd, r.cd.size), !.exit = TRUE]
         [] r.result.kind = "OutOfMemory" ->
                [st EXCEPT !.cd = r.cd, !.exit = TRUE]
         [] OTHER -> [st EXCEPT !.cd = r.cd]

\* RedrawRequested with every render error ending the loop.
on_redraw_requested_error_exits(st, acquired) ==
    LET r == render(st.cd, acquired)
    IN CASE r.result.ok -> [st EXCEPT !.cd = r.cd]
         [] r.result.kind = "ContextLost" ->
                [st EXCEPT !.cd = resize(r.cd, r.cd.size)]
         [] OTHER -> [st EXCEPT !.cd = r.cd, !.exit = TRUE]

\* RedrawRequested whose lost-context recovery renders a second time.
on_redraw_requested_lost_rerenders(st, acquired) ==
    LET r == render(st.cd, acquired)
    IN CASE r.result.ok -> [st EXCEPT !.cd = r.cd]
         [] r.result.kind = "ContextLost" ->
                [st EXCEPT !.cd = render(resize(r.cd, r.cd.size), "Texture").cd]
         [] r.result.kind = "OutOfMemory" ->
                [st EXCEPT !.cd = r.cd, !.exit = TRUE]
         [] OTHER -> [st EXCEPT !.cd = r.cd]

\* RedrawRequested with every other error answered like a lost context.
on_redraw_requested_error_resizes(st, acquired) ==
    LET r == render(st.cd, acquired)
    IN CASE r.result.ok -> [st EXCEPT !.cd = r.cd]
         [] r.result.kind = "ContextLost" ->
                [st EXCEPT !.cd = resize(r.cd, r.cd.size)]
         [] r.result.kind = "OutOfMemory" ->
                [st EXCEPT !.cd = r.cd, !.exit = TRUE]
         [] OTHER -> [st EXCEPT !.cd = resize(r.cd, r.cd.size)]

\* WindowEvent::RedrawRequested: update, render, and the policy on its result.
on_redraw_requested(st, acquired) ==
    LET r == render(st.cd, acquired)
    IN CASE r.result.ok -> [st EXCEPT !.cd = r.cd]
         [] r.result.kind = "ContextLost" ->
                [st EXCEPT !.cd = resize(r.cd, r.cd.size)]
         [] r.result.kind = "OutOfMemory" ->
                [st EXCEPT !.cd = r.cd, !.exit = TRUE]
         [] OTHER -> [st EXCEPT !.cd = r.cd]

\* Event::AboutToWait => canvas_data.window().request_redraw()
on_about_to_wait_idle(st) == st

on_about_to_wait(st) == [st EXCEPT !.redraw = TRUE]

\* CanvasData::input: no event is captured.
input(cd, ev) == FALSE

\* The closure: match event { ... }
\* The closure without the test of the window id.
closure_any_window(st, ev, window_id, scale_factor, acquired) ==
    IF ev.kind \in WindowEventKinds
    THEN CASE ev.kind = "Resized" ->
                  on_resized(st, [width |-> ev.args[1], height |-> ev.args[2]])
           [] ev.kind = "CursorMoved" ->
                  on_cursor_moved(st, [x |-> ev.args[1], y |-> ev.args[2]],
                                  scale_factor)
           [] ev.kind = "MouseInput" ->
                  on_mouse_input(st, ev.args[1], ev.args[2])
           [] ev.kind = "KeyboardInput" ->
                  on_keyboard_input(st, ev.args[1], ev.args[2])
           [] ev.kind = "CloseRequested" -> on_close_requested(st)
           [] ev.kind = "RedrawRequested" -> on_redraw_requested(st, acquired)
           [] OTHER -> st
    ELSE IF ev.kind = "AboutToWait" THEN on_about_to_wait(st)
    ELSE st

closure(st, ev, window_id, scale_factor, acquired) ==
    IF ev.kind \in WindowEventKinds /\ ev.window_id = window_id
    THEN IF ~input(st.cd, ev)
         THEN CASE ev.kind = "Resized" ->
                       on_resized(st, [width |-> ev.args[1], height |-> ev.args[2]])
                [] ev.kind = "CursorMoved" ->
                       on_cursor_moved(st, [x |-> ev.args[1], y |-> ev.args[2]],
                                       scale_factor)
                [] ev.kind = "MouseInput" ->
                       on_mouse_input(st, ev.args[1], ev.args[2])
                [] ev.kind = "KeyboardInput" ->
                       on_keyboard_input(st, ev.args[1], ev.args[2])
                [] ev.kind = "CloseRequested" -> on_close_requested(st)
                [] ev.kind = "RedrawRequested" -> on_redraw_requested(st, acquired)
                [] OTHER -> st
         ELSE st
    ELSE IF ev.kind = "AboutToWait" THEN on_about_to_wait(st)
    ELSE st

\* The platform invokes the closure with ev; acquired is what the surface
\* gives should the closure render; win is the window at that time. The closure
\* never asks whether exit was requested, and event_loop.run(..) still hands it
\* the events due after window_target.exit(), Event::LoopExiting among them.
Deliver(ev, acquired, win, redraw) ==
    /\ pc = "running"
    /\ LET st == closure(ClosureState(Fresh(canvas_data), cursor_pos,
                                      exit_requested, redraw),
                         ev, win.id, win.scale_factor, acquired)
       IN /\ canvas_data' = st.cd
          /\ cursor_pos' = st.cursor_pos
          /\ exit_requested' = st.exit
          /\ redraw_requested' = st.redraw
          /\ handler_total' = Tally(handler_total, st.cd.trace)
          /\ render_oom' = (/\ Count(st.cd.trace, "CanvasData::render") > 0
                            /\ acquired = "OutOfMemory")
    /\ event' = [kind |-> ev.kind, window_id |-> ev.window_id]
    /\ window' = win
    /\ last_move' =
         IF ev.kind = "CursorMoved" /\ ev.window_id = OwnWindow
         THEN <<Frac(ev.args[1], win.scale_factor), Frac(ev.args[2], win.scale_factor)>>
         ELSE last_move
    /\ pc' = IF Panicked(canvas_data') THEN "panicked" ELSE pc
    /\ UNCHANGED <<options, result>>

Resized(window_id, width, height) ==
    Deliver(WindowEvent("Resized", window_id, <<width, height>>), "Texture",
            window, redraw_requested)

CursorMoved(window_id, x, y) ==
    Deliver(WindowEvent("CursorMoved", window_id, <<x, y>>), "Texture",
            window, redraw_requested)

MouseInput(window_id, state, button) ==
    Deliver(WindowEvent("MouseInput", window_id, <<state, button>>), "Texture",
            window, redraw_requested)

KeyboardInput(window_id, key, state) ==
    Deliver(WindowEvent("KeyboardInput", window_id, <<key, state>>), "Texture",
            window, redraw_requested)

CloseRequested(window_id) ==
    Deliver(WindowEvent("CloseRequested", window_id, <<>>), "Texture",
            window, redraw_requested)

\* A redraw of the window serves its pending redraw request.
RedrawRequested(window_id, acquired) ==
    Deliver(WindowEvent("RedrawRequested", window_id, <<>>), acquired,
            window, IF window_id = OwnWindow THEN FALSE ELSE redraw_requested)

\* The window moved to a display of another scale factor: a window event the
\* closure has no arm for.
ScaleFactorChanged(window_id, scale_factor) ==
    Deliver(WindowEvent("ScaleFactorChanged", window_id, <<scale_factor>>), "Texture",
            IF window_id = OwnWindow
            THEN [window EXCEPT !.scale_factor = scale_factor] ELSE window,
            redraw_requested)

AboutToWait ==
    Deliver([kind |-> "AboutToWait", window_id |-> "none", args |-> <<>>],
            "Texture", window, redraw_requested)

\* Any other event (NewEvents, Resumed, DeviceEvent, LoopExiting, ...).
OtherEvent(kind) ==
    Deliver([kind |-> kind, window_id |-> "none", args |-> <<>>],
            "Texture", window, redraw_requested)

OtherEventKinds == {"NewEvents", "LoopExiting"}

\* Once exit is requested the loop winds down and event_loop.run(..) returns
\* Ok; create_and_run_canvas returns Ok(()).
LoopExit ==
    /\ pc = "running"
    /\ exit_requested
    /\ Return(Ok, Fresh(canvas_data))
    /\ UNCHANGED <<event, last_move, render_oom>>

\* event_loop.run(..) returns an error of the platform (no exit was requested):
\* .map_err(..)?
RunError ==
    /\ pc = "running"
    /\ ~exit_requested
    /\ Return(Err("GraphicsAPI"), Fresh(canvas_data))
    /\ UNCHANGED <<event, last_move, render_oom>>

Next ==
    \/ \E ok \in BOOLEAN : EventLoopNew(ok)
    \/ \E ok \in BOOLEAN, scale_factor \in ScaleFactors : WindowBuild(ok, scale_factor)
    \/ \E failure \in NewFailures, caps \in SurfaceCaps, inner_size \in InnerSizes :
          CanvasDataNew(failure, caps, inner_size)
    \/ \E ok \in BOOLEAN : HandlerSetup(ok)
    \/ \E window_id \in WindowIds, width \in Dims, height \in Dims :
          Resized(window_id, width, height)
    \/ \E window_id \in WindowIds, x \in Coords, y \in Coords :
          CursorMoved(window_id, x, y)
    \/ \E window_id \in WindowIds, state \in ElementStates, button \in MouseButtons :
          MouseInput(window_id, state, button)
    \/ \E window_id \in WindowIds, key \in Keys, state \in ElementStates :
          KeyboardInput(window_id, key, state)
    \/ \E window_id \in WindowIds : CloseRequested(window_id)
    \/ \E window_id \in WindowIds, acquired \in AcquireResults :
          RedrawRequested(window_id, acquired)
    \/ \E window_id \in WindowIds, scale_factor \in ScaleFactors :
          ScaleFactorChanged(window_id, scale_factor)
    \/ AboutToWait
    \/ \E kind \in OtherEventKinds : OtherEvent(kind)
    \/ LoopExit
    \/ RunError

Spec == Init /\ [][Next]_vars

\* The platform delivers a redraw the window asked for: window.request_redraw()
\* is answered by a RedrawRequested event of that window.
RedrawDelivered ==
    /\ redraw_requested
    /\ \E acquired \in AcquireResults : RedrawRequested(OwnWindow, acquired)

\* The loop polls (ControlFlow::Poll): it never blocks, so every turn of it ends
\* with AboutToWait, and requested redraws are delivered.
FairSpec == Spec /\ WF_vars(AboutToWait) /\ WF_vars(RedrawDelivered)

\* ------------------------------------------------------------------ claims
Trace == canvas_data.trace

OwnEvent(kind) == [kind |-> kind, window_id |-> OwnWindow]

\* The step gives an event of this kind, of the window, to the closure.
IsStep(kind) == pc = "running" /\ pc' = "running" /\ event' = OwnEvent(kind)

\* The dimensions the surface is configured with and the cached size.
Dimensions(cd) ==
    <<cd.config.width, cd.config.height, cd.size.width, cd.size.height,
      cd.surface.width, cd.surface.height>>

\* The step begins with the call CanvasData::resize(w, h), as every step
\* Resized(OwnWindow, w, h) does.
ResizeCalled(w, h) ==
    /\ Len(canvas_data'.trace) > 0
    /\ canvas_data'.trace[1] = Op("CanvasData::resize", <<w, h>>)

\* C1: a resize event of the window with width = 0 or height = 0, delivered while
\* running, leaves the Surface Configuration, the cached size and the surface as
\* they were; the surface is not reconfigured, handler.resize is not called and
\* the loop keeps running.
C1_ZeroResizeIgnored ==
    [][(pc = "running" /\ event' = OwnEvent("Resized")) =>
       \A w \in Dims, h \in Dims :
          ((w = 0 \/ h = 0) /\ ResizeCalled(w, h) /\ Resized(OwnWindow, w, h)) =>
             /\ pc' = "running"
             /\ canvas_data'.config = canvas_data.config
             /\ canvas_data'.size = canvas_data.size
             /\ canvas_data'.surface = canvas_data.surface
             /\ Count(canvas_data'.trace, "surface.configure") = 0
             /\ Count(canvas_data'.trace, "handler.resize") = 0]_vars

\* A resize to (0, h) was delivered to a canvas with a valid configuration.
C1_Witness ==
    /\ pc = "running"
    /\ event = OwnEvent("Resized")
    /\ Trace = <<Op("CanvasData::resize", <<0, MaxDim>>)>>
    /\ canvas_data.config.width > 0
    /\ canvas_data.config.height > 0

\* C2: after a resize event of the window with both dimensions positive the
\* Surface Configuration (and the cached size and the surface) has the new
\* dimensions, and handler.resize was called exactly once, with those values,
\* after the one surface.configure call made with those values.
C2_ResizeThenNotify ==
    [][IsStep("Resized") => \A w \in Dims, h \in Dims :
          (w > 0 /\ h > 0 /\ ResizeCalled(w, h) /\ Resized(OwnWindow, w, h)) =>
             LET t == canvas_data'.trace
             IN /\ Dimensions(canvas_data') = <<w, h, w, h, w, h>>
                /\ Count(t, "handler.resize") = 1
                /\ Count(t, "surface.configure") = 1
                /\ t[Index(t, "handler.resize")].args = <<w, h>>
                /\ t[Index(t, "surface.configure")].args = <<w, h>>
                /\ Index(t, "surface.configure") < Index(t, "handler.resize")]_vars

\* A resize to new, positive dimensions was delivered and the handler notified.
C2_Witness ==
    /\ pc = "running"
    /\ event = OwnEvent("Resized")
    /\ Dimensions(canvas_data) = <<1, MaxDim, 1, MaxDim, 1, MaxDim>>
    /\ Trace = <<Op("CanvasData::resize", <<1, MaxDim>>),
                 Op("surface.configure", <<1, MaxDim>>),
                 Op("handler.resize", <<1, MaxDim>>)>>


\* C3: once create_and_run_canvas has returned after a render() that gave
\* OutOfMemory, handler.stop has been called exactly once.
C3_OutOfMemoryStopsOnce ==
    (pc = "done" /\ render_oom) => handler_total.stop = 1

\* C4: once create_and_run_canvas has returned, a handler that was set up
\* (whether setup failed or the loop was left) has had stop called.
C4_StopBeforeReturn ==
    (pc = "done" /\ handler_total.setup > 0) => handler_total.stop > 0

\* C5: a redraw of the window whose render() gives ContextLost makes, after the
\* render, exactly one call of CanvasData::resize, with the size cached before
\* the event, requests no exit and leaves the loop running.
C5_ContextLostResizesOnce ==
    [][(IsStep("RedrawRequested") /\ RedrawRequested(OwnWindow, "Lost")) =>
          LET t == canvas_data'.trace
          IN /\ Count(t, "CanvasData::render") = 1
             /\ Count(t, "CanvasData::resize") = 1
             /\ t[Index(t, "CanvasData::resize")].args =
                   <<canvas_data.size.width, canvas_data.size.height>>
             /\ Index(t, "CanvasData::render") < Index(t, "CanvasData::resize")
             /\ exit_requested' = exit_requested
             /\ pc' = "running"]_vars

\* A lost context was answered by a resize to the cached size, which the canvas
\* had been resized to before; the loop goes on.
C5_Witness ==
    /\ pc = "running"
    /\ ~exit_requested
    /\ event = OwnEvent("RedrawRequested")
    /\ Trace = <<Op("CanvasData::render", <<>>),
                 Op("CanvasData::resize", <<1, MaxDim>>),
                 Op("surface.configure", <<1, MaxDim>>),
                 Op("handler.resize", <<1, MaxDim>>)>>

\* C6: once create_and_run_canvas has returned after a render() that gave
\* OutOfMemory, what it returned is an Err.
C6_OutOfMemoryReturnsErr ==
    (pc = "done" /\ render_oom) => ~result.ok

HandlerCallbacks == {"handler.setup", "handler.stop", "handler.next_frame",
                     "handler.resize", "handler.cursor_move",
                     "handler.mouse_button", "handler.keyboard_event"}

\* The calls of a trace that are a render or a handler callback other than setup.
FrameOrCallback(trace) ==
    {i \in DOMAIN trace :
        trace[i].op \in (HandlerCallbacks \ {"handler.setup"}) \cup {"CanvasData::render"}}

\* C7: setup is called at most once; it is called in a state where CanvasData::new
\* has succeeded and the surface is configured; until it has been called there
\* is no render and no other handler callback; the loop runs only after it, and
\* no step of the running loop calls it.
C7_SetupOnceBeforeFrames ==
    /\ [](handler_total.setup <= 1)
    /\ [](pc = "running" =>
            /\ handler_total.setup = 1
            /\ canvas_data.created
            /\ canvas_data.surface.configured)
    /\ [](handler_total.setup = 0 => FrameOrCallback(Trace) = {})
    /\ [][Count(canvas_data'.trace, "handler.setup") > 0 =>
            /\ Count(canvas_data'.trace, "handler.setup") = 1
            /\ handler_total.setup = 0
            /\ pc = "setup"
            /\ canvas_data.created
            /\ canvas_data.surface.configured
            /\ FrameOrCallback(canvas_data'.trace) = {}]_vars
    /\ [][pc = "running" => Count(canvas_data'.trace, "handler.setup") = 0]_vars

\* The loop renders a frame after the one setup call.
C7_Witness ==
    /\ pc = "running"
    /\ handler_total.setup = 1
    /\ event = OwnEvent("RedrawRequested")
    /\ Count(Trace, "handler.next_frame") = 1

\* A step of startup that fails.
StartupFailure ==
    \/ EventLoopNew(FALSE)
    \/ \E scale_factor \in ScaleFactors : WindowBuild(FALSE, scale_factor)
    \/ \E failure \in NewFailures \ {"none"}, caps \in SurfaceCaps,
          inner_size \in InnerSizes : CanvasDataNew(failure, caps, inner_size)
    \/ HandlerSetup(FALSE)

\* C8: a failing startup step ends create_and_run_canvas with an Err: the loop
\* has not been entered, no event was given to the closure, and there was no
\* render and no handler callback but setup; nothing happens after the return.
C8_StartupFailureTerminates ==
    /\ [][StartupFailure =>
            /\ pc' = "done"
            /\ ~result'.ok
            /\ result'.kind \in {"GraphicsAPI", "Internal"}
            /\ event' = NoEvent
            /\ FrameOrCallback(canvas_data'.trace) = {}]_vars
    /\ [][pc # "done"]_vars
    /\ [][event' # event => (pc = "running" /\ pc' = "running")]_vars

\* setup returned an error and create_and_run_canvas returned Err(Internal).
C8_Witness ==
    /\ pc = "done"
    /\ result = Err("Internal")
    /\ event = NoEvent
    /\ Trace = <<Op("handler.setup", <<1, MaxDim>>)>>

\* C9: the cached cursor position is the logical position of the last cursor-move
\* event of the window ((0,0) before the first); a mouse-button event of the
\* window reports exactly it; and only a cursor-move event of the window
\* changes it.
C9_ClickReportsLastMove ==
    /\ [](pc = "running" => cursor_pos = last_move)
    /\ [][\A state \in ElementStates, button \in MouseButtons :
            (IsStep("MouseInput") /\ MouseInput(OwnWindow, state, button)) =>
               canvas_data'.trace =
                  <<Op("handler.mouse_button",
                       <<last_move[1], last_move[2], button, state = "Pressed">>)>>]_vars
    /\ [][(pc = "running" /\ pc' = "running" /\ cursor_pos' # cursor_pos) =>
            event' = OwnEvent("CursorMoved")]_vars

\* A click reports the logical position 1/2 of a move made at scale factor 2,
\* after the window has changed to scale factor 1.
C9_Witness ==
    /\ pc = "running"
    /\ event = OwnEvent("MouseInput")
    /\ window.scale_factor = 1
    /\ Trace = <<Op("handler.mouse_button", <<Frac(1, 2), Zero, "Left", TRUE>>)>>

\* C10: whenever the surface is configured, the Surface Configuration's width
\* and height are positive.
C10_ConfigPositive ==
    canvas_data.surface.configured =>
        (canvas_data.config.width > 0 /\ canvas_data.config.height > 0)

\* CanvasData::new has just configured the surface of a window MaxDim wide and
\* 1 high.
C10_Witness ==
    /\ pc = "setup"
    /\ canvas_data.surface.configured
    /\ canvas_data.config.width = MaxDim
    /\ canvas_data.config.height = 1
    /\ Trace = <<Op("surface.configure", <<MaxDim, 1>>)>>


\* Surface errors that are neither Lost nor OutOfMemory.
OtherSurfaceErrors == SurfaceErrors \ {"Lost", "OutOfMemory"}

\* C11: a redraw of the window whose render() fails with an error other than
\* ContextLost and OutOfMemory does nothing but the failed render: no resize, no
\* surface.configure, no handler callback, no exit request; configuration,
\* cached size, surface and cursor position stay, and the loop keeps running.
C11_OtherErrorOnlyLogged ==
    [][\A e \in OtherSurfaceErrors :
          (IsStep("RedrawRequested") /\ RedrawRequested(OwnWindow, e)) =>
             /\ error_from(e) = Err("GraphicsAPI")
             /\ canvas_data'.trace = <<Op("CanvasData::render", <<>>)>>
             /\ Dimensions(canvas_data') = Dimensions(canvas_data)
             /\ canvas_data'.config = canvas_data.config
             /\ cursor_pos' = cursor_pos
             /\ exit_requested' = exit_requested
             /\ pc' = "running"]_vars

\* A failed render that was not fatal and not answered by a resize, on a canvas
\* with a valid configuration.
C11_Witness ==
    /\ pc = "running"
    /\ ~exit_requested
    /\ event = OwnEvent("RedrawRequested")
    /\ Trace = <<Op("CanvasData::render", <<>>)>>
    /\ canvas_data.config.width > 0
    /\ canvas_data.config.height > 0

\* C12: a redraw of the window whose render() acquires a texture makes one
\* queue.submit, then one present, then one next_frame call; one whose render()
\* fails at acquisition makes none of the three.
C12_NextFrameAfterPresent ==
    [][\A a \in AcquireResults :
          (IsStep("RedrawRequested") /\ RedrawRequested(OwnWindow, a)) =>
             LET t == canvas_data'.trace
             IN IF a = "Texture"
                THEN t = <<Op("CanvasData::render", <<>>), Op("queue.submit", <<>>),
                           Op("output.present", <<>>), Op("handler.next_frame", <<>>)>>
                ELSE /\ Count(t, "CanvasData::render") = 1
                     /\ Count(t, "queue.submit") = 0
                     /\ Count(t, "output.present") = 0
                     /\ Count(t, "handler.next_frame") = 0]_vars

\* A frame was submitted, presented and announced to the handler.
C12_Witness ==
    /\ pc = "running"
    /\ event = OwnEvent("RedrawRequested")
    /\ Len(Trace) = 4
    /\ Trace[2] = Op("queue.submit", <<>>)
    /\ Trace[3] = Op("output.present", <<>>)
    /\ Trace[4] = Op("handler.next_frame", <<>>)

\* C13: the width and height handed to handler.setup are the width and height
\* of the surface configuration at the time of the call.
C13_SetupGetsConfigSize ==
    (canvas_data.created /\ Count(Trace, "handler.setup") = 1) =>
        Trace[Index(Trace, "handler.setup")].args =
            <<canvas_data.config.width, canvas_data.config.height>>

\* C14: exit is requested only by a CloseRequested of the window or by a redraw
\* of the window whose render() ran out of memory; the loop is left with Ok only
\* after such a request, and otherwise only by an error of the event loop itself.
C14_ExitOnlyOnCloseOrOom ==
    /\ [][(~exit_requested /\ exit_requested') =>
             /\ pc = "running" /\ pc' = "running"
             /\ \/ event' = OwnEvent("CloseRequested")
                \/ /\ event' = OwnEvent("RedrawRequested")
                   /\ render_oom'
                   /\ Count(canvas_data'.trace, "CanvasData::render") = 1]_vars
    /\ [][(pc = "running" /\ pc' = "done") =>
             IF exit_requested THEN result' = Ok
             ELSE result' = Err("GraphicsAPI")]_vars

\* Exit was requested by closing the window.
C14_Witness ==
    /\ pc = "running"
    /\ exit_requested
    /\ ~render_oom
    /\ event = OwnEvent("CloseRequested")

\* C15: render() is called only in a step handling RedrawRequested of the
\* window, as that step's first call and at most once, lost-context recovery
\* included.
C15_RenderOnlyOnRedraw ==
    /\ Count(Trace, "CanvasData::render") <= 1
    /\ Count(Trace, "CanvasData::render") = 1 =>
          /\ event = OwnEvent("RedrawRequested")
          /\ Trace[1].op = "CanvasData::render"

\* A lost context was recovered by a resize to a valid size with one render.
C15_Witness ==
    /\ pc = "running"
    /\ event = OwnEvent("RedrawRequested")
    /\ Count(Trace, "CanvasData::render") = 1
    /\ Count(Trace, "surface.configure") = 1
    /\ Count(Trace, "handler.resize") = 1

\* The loop is running and no exit was requested.
RunningOpen == pc = "running" /\ ~exit_requested

\* The state follows a redraw of the window in which render() was called.
Rendered ==
    /\ pc = "running"
    /\ event = OwnEvent("RedrawRequested")
    /\ Count(Trace, "CanvasData::render") = 1

\* C16: every AboutToWait while running requests a redraw, and with the platform
\* delivering idle signals and requested redraws, a loop that stays running
\* without an exit request renders again and again, whatever the renders return.
C16_RendersAgainAndAgain ==
    /\ [][(pc = "running" /\ pc' = "running" /\ event'.kind = "AboutToWait") =>
             redraw_requested']_vars
    /\ <>[]RunningOpen => []<>Rendered

\* An idle signal asked for a redraw of a canvas whose surface is configured
\* with a valid size.
C16_Witness ==
    /\ RunningOpen
    /\ event.kind = "AboutToWait"
    /\ redraw_requested
    /\ canvas_data.surface.configured
    /\ canvas_data.config.width > 0
    /\ canvas_data.config.height > 0

\* C17: render() turns every failure of the surface acquisition into an error:
\* Lost into ContextLost, OutOfMemory into OutOfMemory, every other one into
\* GraphicsAPI; none into IO or Internal, and no other one into ContextLost or
\* OutOfMemory.
C17_SurfaceErrorMapping ==
    [][\A e \in SurfaceErrors :
          (IsStep("RedrawRequested") /\ RedrawRequested(OwnWindow, e)) =>
             LET r == render(Fresh(canvas_data), e).result
             IN /\ ~r.ok
                /\ r.kind = CASE e = "Lost" -> "ContextLost"
                              [] e = "OutOfMemory" -> "OutOfMemory"
                              [] OTHER -> "GraphicsAPI"
                /\ r.kind \notin {"IO", "Internal"}
                /\ r.kind \in {"ContextLost", "OutOfMemory"} =>
                      e \in {"Lost", "OutOfMemory"}
                /\ r.kind = "ContextLost" <=>
                      Count(canvas_data'.trace, "CanvasData::resize") = 1
                /\ r.kind = "OutOfMemory" => exit_requested'
                /\ exit_requested' # exit_requested => r.kind = "OutOfMemory"]_vars

\* A render failed with OutOfMemory and the loop took it for that.
C17_Witness ==
    /\ pc = "running"
    /\ event = OwnEvent("RedrawRequested")
    /\ render_oom
    /\ exit_requested
    /\ Trace = <<Op("CanvasData::render", <<>>)>>

\* C18: an event of another window, whatever its kind, changes nothing of the
\* canvas, the cursor position, the exit and redraw requests or the window, and
\* makes no call: no handler callback, no render, no configure.
C18_OtherWindowIgnored ==
    [][(pc = "running" /\ pc' = "running" /\ event'.window_id = OtherWindow) =>
          /\ canvas_data'.trace = <<>>
          /\ canvas_data' = Fresh(canvas_data)
          /\ cursor_pos' = cursor_pos
          /\ exit_requested' = exit_requested
          /\ redraw_requested' = redraw_requested
          /\ handler_total' = handler_total
          /\ window' = window]_vars

\* A request to close another window was delivered and the loop goes on, with
\* its pending redraw.
C18_Witness ==
    /\ pc = "running"
    /\ event = [kind |-> "CloseRequested", window_id |-> OtherWindow]
    /\ ~exit_requested
    /\ redraw_requested
    /\ Trace = <<>>

\* C19: once the canvas is created, the cached size is the size in the surface
\* configuration, which is the size the surface is configured with.
C19_SizeIsConfigSize ==
    canvas_data.created =>
        /\ canvas_data.size.width = canvas_data.config.width
        /\ canvas_data.size.height = canvas_data.config.height
        /\ canvas_data.surface.configured
        /\ canvas_data.surface.width = canvas_data.config.width
        /\ canvas_data.surface.height = canvas_data.config.height

\* A resize of the window took the canvas to the largest width.
C19_Witness ==
    /\ pc = "running"
    /\ event = OwnEvent("Resized")
    /\ Count(Trace, "surface.configure") = 1
    /\ canvas_data.size.width = MaxDim
    /\ canvas_data.config.width = MaxDim

\* C20: while running no step changes usage, format, present mode or alpha mode
\* of the surface configuration or drops the canvas or its configured surface,
\* and only a Resized event of the window changes the configuration at all.
C20_ConfigFixedButSize ==
    [][(pc = "running" /\ pc' = "running") =>
          /\ canvas_data'.created /\ canvas_data'.surface.configured
          /\ canvas_data'.config.usage = canvas_data.config.usage
          /\ canvas_data'.config.format = canvas_data.config.format
          /\ canvas_data'.config.present_mode = canvas_data.config.present_mode
          /\ canvas_data'.config.alpha_mode = canvas_data.config.alpha_mode
          /\ canvas_data'.config # canvas_data.config =>
                /\ event' = OwnEvent("Resized")
                /\ Count(canvas_data'.trace, "surface.configure") = 1]_vars

\* A canvas created with the second set of capabilities was resized.
C20_Witness ==
    /\ pc = "running"
    /\ event = OwnEvent("Resized")
    /\ Count(Trace, "handler.resize") = 1
    /\ canvas_data.config.format = "Rgba16Float"
    /\ canvas_data.config.present_mode = "Mailbox"
    /\ canvas_data.config.alpha_mode = "Auto"

====
